---------------------------- MODULE Spec2Model ----------------------------
(***************************************************************************)
(* Time-aligned keyframe extraction (src/src/annotation_interface.py and   *)
(* src/src/metadata_extraction.py).                                        *)
(*                                                                         *)
(* Strings are sequences of one-character strings, so that split(), int()  *)
(* and the f-string formatting are computed character by character.        *)
(* Python floats are IEEE-754 doubles: a double is the record [m, e] that  *)
(* stands for m * 2^e, with m an odd natural number of at most 53 bits     *)
(* (or m = 0, e = 0), kept as little-endian limbs in base 2^15 because the *)
(* mantissa does not fit the model checker's integers.                     *)
(***************************************************************************)
EXTENDS Integers, Sequences, FiniteSets, TLC

(***************************************************************************)
(* Natural numbers of arbitrary size (little-endian limbs, no leading zero *)
(* limb, zero is the empty sequence).                                      *)
(***************************************************************************)
Base == 2^15

RECURSIVE BigFromInt(_)
BigFromInt(n) == IF n = 0 THEN <<>> ELSE <<n % Base>> \o BigFromInt(n \div Base)

RECURSIVE BigToInt(_)
BigToInt(A) == IF A = <<>> THEN 0 ELSE Head(A) + Base * BigToInt(Tail(A))

RECURSIVE BigTrim(_)
BigTrim(A) ==
    IF A = <<>> THEN <<>>
    ELSE IF A[Len(A)] = 0 THEN BigTrim(SubSeq(A, 1, Len(A) - 1)) ELSE A

RECURSIVE BigMulCarry(_, _, _)
BigMulCarry(A, c, carry) ==
    IF A = <<>> THEN BigFromInt(carry)
    ELSE LET v == Head(A) * c + carry
         IN  <<v % Base>> \o BigMulCarry(Tail(A), c, v \div Base)

\* A * c for a small factor c (c < 2^15).
BigMulSmall(A, c) == BigTrim(BigMulCarry(A, c, 0))

\* Long division of A by a small divisor c, most significant limb first:
\* [q |-> A \div c, r |-> A % c].
RECURSIVE BigDivFrom(_, _, _)
BigDivFrom(A, c, i) ==
    IF i > Len(A) THEN [q |-> <<>>, r |-> 0]
    ELSE LET hi  == BigDivFrom(A, c, i + 1)
             cur == hi.r * Base + A[i]
         IN  [q |-> <<cur \div c>> \o hi.q, r |-> cur % c]

BigDivSmall(A, c) ==
    LET d == BigDivFrom(A, c, 1) IN [q |-> BigTrim(d.q), r |-> d.r]

RECURSIVE BigAddCarry(_, _, _)
BigAddCarry(A, B, carry) ==
    IF A = <<>> /\ B = <<>> THEN BigFromInt(carry)
    ELSE LET a == IF A = <<>> THEN 0 ELSE Head(A)
             b == IF B = <<>> THEN 0 ELSE Head(B)
             v == a + b + carry
         IN  <<v % Base>>
               \o BigAddCarry(IF A = <<>> THEN <<>> ELSE Tail(A),
                              IF B = <<>> THEN <<>> ELSE Tail(B), v \div Base)

BigAdd(A, B) == BigTrim(BigAddCarry(A, B, 0))

RECURSIVE BigLessFrom(_, _, _)
BigLessFrom(A, B, i) ==
    IF i = 0 THEN FALSE
    ELSE IF A[i] # B[i] THEN A[i] < B[i] ELSE BigLessFrom(A, B, i - 1)

\* A < B
BigLess(A, B) ==
    IF Len(A) # Len(B) THEN Len(A) < Len(B) ELSE BigLessFrom(A, B, Len(A))

RECURSIVE IntBitLen(_)
IntBitLen(n) == IF n = 0 THEN 0 ELSE 1 + IntBitLen(n \div 2)

BigBitLen(A) == IF A = <<>> THEN 0 ELSE 15 * (Len(A) - 1) + IntBitLen(A[Len(A)])

BigIsOdd(A) == A # <<>> /\ A[1] % 2 = 1

\* A * 2^d
BigShiftLeft(A, d) ==
    IF A = <<>> THEN <<>>
    ELSE BigMulSmall([i \in 1..(d \div 15) |-> 0] \o A, 2^(d % 15))

\* A \div 2^d, with lost = TRUE iff a non-zero bit was shifted out.
BigShiftRight(A, d) ==
    LET k    == d \div 15
        low  == SubSeq(A, 1, IF k < Len(A) THEN k ELSE Len(A))
        rest == IF k < Len(A) THEN SubSeq(A, k + 1, Len(A)) ELSE <<>>
        dv   == BigDivSmall(rest, 2^(d % 15))
    IN  [q    |-> dv.q,
         lost |-> dv.r # 0 \/ \E i \in 1..Len(low) : low[i] # 0]

(***************************************************************************)
(* IEEE-754 double arithmetic (round to nearest, ties to even), for the    *)
(* non-negative values in the range of a video's time line.                *)
(***************************************************************************)
FZero == [m |-> <<>>, e |-> 0]

RECURSIVE TrailingZeros(_)
TrailingZeros(A) ==
    IF A = <<>> \/ BigIsOdd(A) THEN 0
    ELSE IF Head(A) = 0 THEN 15 + TrailingZeros(Tail(A))
    ELSE LET RECURSIVE tz(_)
             tz(n) == IF n % 2 = 1 THEN 0 ELSE 1 + tz(n \div 2)
         IN  tz(Head(A))

\* The canonical record of m * 2^e.
FNorm(m, e) ==
    IF m = <<>> THEN FZero
    ELSE LET z == TrailingZeros(m)
         IN  [m |-> BigShiftRight(m, z).q, e |-> e + z]

\* The double nearest to (m + f) * 2^e, where 0 < f < 1 iff sticky.
FRound(m, e, sticky) ==
    LET L == BigBitLen(m)
    IN  IF L <= 53 THEN FNorm(m, e)
        ELSE LET d     == L - 53
                 s1    == BigShiftRight(m, d - 1)
                 half  == BigIsOdd(s1.q)
                 q     == BigShiftRight(s1.q, 1).q
                 below == s1.lost \/ sticky
                 up    == half /\ (below \/ BigIsOdd(q))
             IN  FNorm(IF up THEN BigAdd(q, <<1>>) ELSE q, e + d)

\* float(n) for an int n >= 0 (exact below 2^53).
FFromInt(n) == FNorm(BigFromInt(n), 0)

\* Python's  k / c  for ints k >= 0 and 0 < c < 2^15: the correctly rounded
\* quotient.  75 extra bits keep more than 54 significant bits of it.
FDivInt(k, c) ==
    IF k = 0 THEN FZero
    ELSE LET dv == BigDivSmall(BigShiftLeft(BigFromInt(k), 75), c)
         IN  FRound(dv.q, -75, dv.r # 0)

\* a + b
FAdd(a, b) ==
    LET e == IF a.e < b.e THEN a.e ELSE b.e
    IN  FRound(BigAdd(BigShiftLeft(a.m, a.e - e), BigShiftLeft(b.m, b.e - e)),
               e, FALSE)

\* a * c for an int c (0 <= c < 2^15)
FMulInt(a, c) == FRound(BigMulSmall(a.m, c), a.e, FALSE)

\* a <= b
FLeq(a, b) ==
    LET e == IF a.e < b.e THEN a.e ELSE b.e
    IN  ~BigLess(BigShiftLeft(b.m, b.e - e), BigShiftLeft(a.m, a.e - e))

\* int(a) = floor(a) for a >= 0
FFloor(a) ==
    IF a.e >= 0 THEN BigToInt(BigShiftLeft(a.m, a.e))
    ELSE BigToInt(BigShiftRight(a.m, -a.e).q)

(***************************************************************************)
(* Strings: str.split, int(), zero-padded formatting.                      *)
(***************************************************************************)
DigitChars == <<"0", "1", "2", "3", "4", "5", "6", "7", "8", "9">>

IsDigit(c) == \E d \in 1..10 : DigitChars[d] = c

DigitVal(c) == (CHOOSE d \in 1..10 : DigitChars[d] = c) - 1

\* Python's None (a missing field); no string equals it.
None == <<"None">>

\* The index of the first occurrence of character ch in s, or 0.
RECURSIVE IndexFrom(_, _, _)
IndexFrom(s, ch, i) ==
    IF i > Len(s) THEN 0 ELSE IF s[i] = ch THEN i ELSE IndexFrom(s, ch, i + 1)

\* s.split(sep) for a one-character separator.
RECURSIVE Split(_, _)
Split(s, sep) ==
    LET i == IndexFrom(s, sep, 1)
    IN  IF i = 0 THEN <<s>>
        ELSE <<SubSeq(s, 1, i - 1)>> \o Split(SubSeq(s, i + 1, Len(s)), sep)

\* int(tok) succeeds on a non-empty run of decimal digits; on the characters
\* of this model (digits, ':', '.', letters) it raises ValueError otherwise.
IntOk(tok) == Len(tok) > 0 /\ \A i \in 1..Len(tok) : IsDigit(tok[i])

RECURSIVE IntVal(_)
IntVal(tok) ==
    IF tok = <<>> THEN 0
    ELSE 10 * IntVal(SubSeq(tok, 1, Len(tok) - 1)) + DigitVal(tok[Len(tok)])

RECURSIVE DigitsOf(_)
DigitsOf(n) ==
    IF n < 10 THEN <<DigitChars[n + 1]>>
    ELSE DigitsOf(n \div 10) \o <<DigitChars[(n % 10) + 1]>>

\* f"{n:0{w}d}"
RECURSIVE ZeroPad(_, _)
ZeroPad(digits, w) == IF Len(digits) >= w THEN digits ELSE ZeroPad(<<"0">> \o digits, w)

PadInt(n, w) == ZeroPad(DigitsOf(n), w)

(***************************************************************************)
(* TimeCode                                                                *)
(***************************************************************************)
\* Variant: a string of two ':'-separated tokens is read as MM:SS.mmm.
parse_time_optional_hours(time_str) ==
    IF time_str = None THEN FZero
    ELSE LET given == Split(time_str, ":")
             hms   == IF Len(given) = 2 THEN <<<<"0">>>> \o given ELSE given
         IN  IF Len(hms) # 3 THEN FZero
             ELSE LET sms == Split(hms[3], ".")
                  IN  IF Len(sms) # 2 THEN FZero
                      ELSE IF ~(IntOk(hms[1]) /\ IntOk(hms[2])
                                /\ IntOk(sms[1]) /\ IntOk(sms[2])) THEN FZero
                      ELSE FAdd(FFromInt(IntVal(hms[1]) * 3600
                                         + IntVal(hms[2]) * 60 + IntVal(sms[1])),
                                FDivInt(IntVal(sms[2]), 1000))

\* Variant: a seconds token without a fractional part is read as whole
\* seconds.
parse_time_optional_fraction(time_str) ==
    IF time_str = None THEN FZero
    ELSE LET hms == Split(time_str, ":")
         IN  IF Len(hms) # 3 THEN FZero
             ELSE LET given == Split(hms[3], ".")
                      sms   == IF Len(given) = 1 THEN given \o <<<<"0">>>> ELSE given
                  IN  IF Len(sms) # 2 THEN FZero
                      ELSE IF ~(IntOk(hms[1]) /\ IntOk(hms[2])
                                /\ IntOk(sms[1]) /\ IntOk(sms[2])) THEN FZero
                      ELSE FAdd(FFromInt(IntVal(hms[1]) * 3600
                                         + IntVal(hms[2]) * 60 + IntVal(sms[1])),
                                FDivInt(IntVal(sms[2]), 1000))

\* parse_time: every exception of the try block (AttributeError on None,
\* ValueError on a wrong token count or on int()) is caught and gives 0,
\* which equals 0.0.
parse_time(time_str) ==
    IF time_str = None THEN FZero
    ELSE LET hms == Split(time_str, ":")
         IN  IF Len(hms) # 3 THEN FZero
             ELSE LET sms == Split(hms[3], ".")
                  IN  IF Len(sms) # 2 THEN FZero
                      ELSE IF ~(IntOk(hms[1]) /\ IntOk(hms[2])
                                /\ IntOk(sms[1]) /\ IntOk(sms[2])) THEN FZero
                      ELSE FAdd(FFromInt(IntVal(hms[1]) * 3600
                                         + IntVal(hms[2]) * 60 + IntVal(sms[1])),
                                FDivInt(IntVal(sms[2]), 1000))

\* f"{hours:02d}:{minutes:02d}:{seconds:02d}.{milliseconds:03d}"
TimeStr(hours, minutes, seconds, milliseconds) ==
    PadInt(hours, 2) \o <<":">> \o PadInt(minutes, 2) \o <<":">>
        \o PadInt(seconds, 2) \o <<".">> \o PadInt(milliseconds, 3)

\* The time string of a keyframe.  // and % on floats are exact, so hours,
\* minutes and seconds come from floor(timestamp); timestamp * 1000 is a
\* rounded double product.
FormatTime(timestamp) ==
    LET whole        == FFloor(timestamp)
        hours        == whole \div 3600
        minutes      == (whole % 3600) \div 60
        seconds      == whole % 60
        milliseconds == FFloor(FMulInt(timestamp, 1000)) % 1000
    IN  TimeStr(hours, minutes, seconds, milliseconds)

(***************************************************************************)
(* Dictionaries (JSON objects) are functions from keys to values; a key    *)
(* that is absent is outside the domain.  {} is the empty function.        *)
(***************************************************************************)
EmptyDict == <<>>

\* d.get(k)
Get(d, k) == IF k \in DOMAIN d THEN d[k] ELSE None

\* d.get(k, default)
GetOr(d, k, default) == IF k \in DOMAIN d THEN d[k] ELSE default

\* The dictionary with key k bound to v, or {} when v is Absent.
Absent == <<"Absent">>

Entry(k, v) == IF v = Absent THEN EmptyDict ELSE (k :> v)

RECURSIVE Concat(_)
Concat(seqs) == IF seqs = <<>> THEN <<>> ELSE Head(seqs) \o Concat(Tail(seqs))

\* The default of the correlator's instance.get(..., "0:00:00").
DefaultTime == <<"0", ":", "0", "0", ":", "0", "0">>

\* The time strings of the documents of this model.
T0 == <<"0", ":", "0", "0", ":", "0", "0", ".", "0", "0", "0">>
T1 == <<"0", ":", "0", "0", ":", "0", "1", ".", "0", "0", "1">>

\* parse_time(time_str), looked up in a table of parse_time computed once
\* for the time strings that the documents of this model hold.
KnownTimes == {T0, T1, None, DefaultTime}

ParseTable == { <<str, parse_time(str)>> : str \in KnownTimes }

ParseTime(time_str) ==
    IF time_str \in KnownTimes
    THEN (CHOOSE row \in ParseTable : row[1] = time_str)[2]
    ELSE parse_time(time_str)

(***************************************************************************)
(* State                                                                   *)
(***************************************************************************)
VARIABLES
    metadata,             \* the insights document given to extract_keyframes
    store,                \* data/raw_videos: [exists, files], files in listing order
    video_path,           \* the file the capture is opened on
    threshold,            \* scene-change threshold (metadata_extraction)
    pc,                   \* position of the running pass
    err,                  \* the exception that ended the pass, or "none"
    cap,                  \* the capture handle: "none", "held", "released"
    fps,                  \* cap.get(CAP_PROP_FPS)
    timestamps,           \* sorted list of collected timestamps
    frame_index,          \* enumerate() position of the build loop
    formatted_keyframes,  \* the build's result list
    disk,                 \* persisted images: path -> image
    keyframes,            \* the detect pass's result list
    prev_frame,           \* previous gray frame of the detect pass, or NoImage
    frame_idx,            \* frame counter of the detect pass
    t_in,                 \* TimeCode: the string given to parse_time
    t_val,                \* TimeCode: the value parse_time returned
    t_str,                \* TimeCode: the formatted string of t_val
    t_back,               \* TimeCode: parse_time of t_str
    run,                  \* number of the build invocation on this store
    earlier,              \* the previous invocation: its inputs and outcome
    enhanced,             \* keyframes enhance_keyframe has been applied to
    image,                \* the last cv2.imread result, or NoImage
    metadata_file,        \* the file annotation_interface runs on, or "none"
    session_keys,         \* the flags present in st.session_state
    has_unsaved_changes,  \* st.session_state.has_unsaved_changes
    session_state,        \* the annot_* entries of st.session_state
    processed,            \* data/processed: base name -> annotations file
    page_keyframes,       \* the keyframes list of annotation_interface
    event,                \* the interaction of the last script run, its outcome
    written               \* what the keyframes held at the last successful save

buildVars  == <<metadata, store, video_path, pc, err, cap, fps, timestamps,
                frame_index, formatted_keyframes, disk>>
detectVars == <<threshold, keyframes, prev_frame, frame_idx>>
timeVars   == <<t_in, t_val, t_str, t_back>>
rerunVars   == <<run, earlier>>
enhanceVars == <<enhanced, image>>
annotateVars == <<metadata_file, session_keys, has_unsaved_changes, session_state,
                  processed, page_keyframes, event, written>>
vars       == <<metadata, store, video_path, threshold, pc, err, cap, fps,
                timestamps, frame_index, formatted_keyframes, disk, keyframes,
                prev_frame, frame_idx, t_in, t_val, t_str, t_back, run, earlier,
                enhanced, image, metadata_file, session_keys,
                has_unsaved_changes, session_state, processed, page_keyframes,
                event, written>>

(***************************************************************************)
(* Video files.  A file is [name, video]; a video is                       *)
(* [opens, fps, frames], a frame being its gray image (a sequence of       *)
(* pixel levels, never empty) or NoImage when it cannot be decoded.        *)
(* NoImage also stands for the None of a frame variable.                   *)
(***************************************************************************)
NoImage == <<>>

NoVideo == [opens |-> FALSE, fps |-> 0, frames |-> <<>>]

\* The video behind a path: a path that names no file cannot be opened.
VideoAt(dir, path) ==
    IF dir.exists /\ \E i \in 1..Len(dir.files) : dir.files[i].name = path
    THEN dir.files[CHOOSE i \in 1..Len(dir.files) : dir.files[i].name = path].video
    ELSE NoVideo

\* cap.set(CAP_PROP_POS_FRAMES, n); ret, frame = cap.read()
ReadAt(video, n) ==
    IF n >= 0 /\ n < Len(video.frames) /\ video.frames[n + 1] # NoImage
    THEN [ret |-> TRUE, frame |-> video.frames[n + 1]]
    ELSE [ret |-> FALSE, frame |-> NoImage]

(***************************************************************************)
(* annotation_interface.extract_keyframes: asset resolution                *)
(***************************************************************************)
Letters == {"a", "b", "c", "d", "e", "f", "g", "h", "i", "j", "k", "l", "m",
            "n", "o", "p", "q", "r", "s", "t", "u", "v", "w", "x", "y", "z"}

IsAlnum(c) == IsDigit(c) \/ c \in Letters

StartsWith(f, prefix) ==
    Len(f) >= Len(prefix) /\ SubSeq(f, 1, Len(prefix)) = prefix

EndsWith(f, suffix) ==
    Len(f) >= Len(suffix) /\ SubSeq(f, Len(f) - Len(suffix) + 1, Len(f)) = suffix

VideoExtensions == {<<".", "m", "p", "4">>, <<".", "m", "o", "v">>,
                    <<".", "a", "v", "i">>, <<".", "m", "k", "v">>}

\* video_name.split('_')[0]
BaseName(video_name) == Split(video_name, "_")[1]

\* "".join(c if c.isalnum() else "_" for c in base_name)
Sanitize(base_name) ==
    [i \in 1..Len(base_name) |->
        IF IsAlnum(base_name[i]) THEN base_name[i] ELSE "_"]

\* [f for f in os.listdir(raw_videos_dir) if f.startswith(base_name) and
\*  f.endswith(('.mp4', '.mov', '.avi', '.mkv'))], in listing order.
IsVideoMatch(file, base_name) ==
    StartsWith(file.name, base_name)
        /\ \E x \in VideoExtensions : EndsWith(file.name, x)

VideoFiles(files, base_name) ==
    SelectSeq(files, LAMBDA file : IsVideoMatch(file, base_name))

\* metadata.get("videos", [{}])[0].get("insights", {}); the caller checks
\* that the list is not empty (IndexError otherwise).
Insights(md) ==
    GetOr(GetOr(md, "videos", <<EmptyDict>>)[1], "insights", EmptyDict)

\* thumbnails/<sanitized_name>/frame_<frame_index>.jpg
ThumbnailPath(sanitized_name, index) ==
    [dir |-> sanitized_name, frame |-> index]

(***************************************************************************)
(* EventTimestampCollector (lines 63-84)                                   *)
(***************************************************************************)
LabelTimestamps(video_insights) ==
    LET labels == GetOr(video_insights, "labels", <<>>)
    IN  UNION { UNION { { ParseTime(Get(instance, "startTime")),
                          ParseTime(Get(instance, "endTime")) } :
                        instance \in
                          { GetOr(labels[i], "appearances", <<>>)[j] :
                            j \in 1..Len(GetOr(labels[i], "appearances", <<>>)) } } :
                i \in 1..Len(labels) }

TranscriptTimestamps(video_insights) ==
    LET transcript == GetOr(video_insights, "transcript", <<>>)
    IN  UNION { UNION { { ParseTime(Get(instance, "adjustedStart")),
                          ParseTime(Get(instance, "adjustedEnd")) } :
                        instance \in
                          { GetOr(transcript[i], "instances", <<>>)[j] :
                            j \in 1..Len(GetOr(transcript[i], "instances", <<>>)) } } :
                i \in 1..Len(transcript) }

ShotTimestamps(video_insights) ==
    LET shots == GetOr(video_insights, "shots", <<>>)
    IN  UNION { { ParseTime(Get(shots[i], "start")),
                  ParseTime(Get(shots[i], "end")) } : i \in 1..Len(shots) }

\* Variant: face boundaries seed timestamps too.
TimestampSetWithFaces(video_insights) ==
    LET faces == GetOr(video_insights, "faces", <<>>)
    IN  LabelTimestamps(video_insights) \cup TranscriptTimestamps(video_insights)
          \cup ShotTimestamps(video_insights)
          \cup UNION { UNION { { ParseTime(Get(faces[i].instances[j], "start")),
                                 ParseTime(Get(faces[i].instances[j], "end")) } :
                               j \in 1..Len(faces[i].instances) } :
                       i \in 1..Len(faces) }

\* The set built by the three loops of timestamps.add(...).
TimestampSet(video_insights) ==
    LabelTimestamps(video_insights) \cup TranscriptTimestamps(video_insights)
        \cup ShotTimestamps(video_insights)

\* sorted(list(S)) for a set of floats
RECURSIVE Sorted(_)
Sorted(S) ==
    IF S = {} THEN <<>>
    ELSE LET least == CHOOSE x \in S : \A y \in S : FLeq(x, y)
         IN  <<least>> \o Sorted(S \ {least})

\* Variant: the boundaries are kept in a list, so a shared boundary stays
\* twice in the sorted result.
CollectWithDuplicates(video_insights) ==
    LET shots == GetOr(video_insights, "shots", <<>>)
    IN  SortSeq(Concat([i \in 1..Len(shots) |->
                          <<ParseTime(Get(shots[i], "start")),
                            ParseTime(Get(shots[i], "end"))>>])
                  \o Sorted(LabelTimestamps(video_insights)
                              \cup TranscriptTimestamps(video_insights)),
                LAMBDA a, b : FLeq(a, b) /\ a # b)

\* Variant: the origin is sampled for every document.
CollectWithOrigin(video_insights) ==
    Sorted(TimestampSet(video_insights) \cup {FZero})

CollectTimestamps(video_insights) == Sorted(TimestampSet(video_insights))

(***************************************************************************)
(* AnnotationCorrelator (lines 127-161)                                    *)
(***************************************************************************)
\* Variant: the start of the interval is excluded.
LabelActiveOpenStart(instance, timestamp) ==
    /\ FLeq(ParseTime(GetOr(instance, "startTime", DefaultTime)), timestamp)
    /\ ParseTime(GetOr(instance, "startTime", DefaultTime)) # timestamp
    /\ FLeq(timestamp, ParseTime(GetOr(instance, "endTime", DefaultTime)))

\* Variant: the end of the interval is excluded.
LabelActiveOpenEnd(instance, timestamp) ==
    /\ FLeq(ParseTime(GetOr(instance, "startTime", DefaultTime)), timestamp)
    /\ FLeq(timestamp, ParseTime(GetOr(instance, "endTime", DefaultTime)))
    /\ ParseTime(GetOr(instance, "endTime", DefaultTime)) # timestamp

LabelActive(instance, timestamp) ==
    /\ FLeq(ParseTime(GetOr(instance, "startTime", DefaultTime)), timestamp)
    /\ FLeq(timestamp, ParseTime(GetOr(instance, "endTime", DefaultTime)))

FaceActive(instance, timestamp) ==
    /\ FLeq(ParseTime(GetOr(instance, "start", DefaultTime)), timestamp)
    /\ FLeq(timestamp, ParseTime(GetOr(instance, "end", DefaultTime)))

OcrActive(instance, timestamp) ==
    /\ FLeq(ParseTime(GetOr(instance, "start", DefaultTime)), timestamp)
    /\ FLeq(timestamp, ParseTime(GetOr(instance, "end", DefaultTime)))

ShotActive(shot, timestamp) ==
    /\ FLeq(ParseTime(GetOr(shot, "start", DefaultTime)), timestamp)
    /\ FLeq(timestamp, ParseTime(GetOr(shot, "end", DefaultTime)))

\* Variant: a label is listed once however many of its appearances are
\* active.
ActiveLabelsCollapsed(video_insights, timestamp) ==
    LET labels == GetOr(video_insights, "labels", <<>>)
        OfLabel(label) ==
            LET apps   == GetOr(label, "appearances", <<>>)
                active == {j \in 1..Len(apps) : LabelActive(apps[j], timestamp)}
            IN  IF active = {} THEN <<>>
                ELSE <<[name       |-> Get(label, "name"),
                        confidence |->
                            GetOr(apps[CHOOSE j \in active : \A k \in active : j <= k],
                                  "confidence", 0)]>>
    IN  Concat([i \in 1..Len(labels) |-> OfLabel(labels[i])])

ActiveLabels(video_insights, timestamp) ==
    LET labels == GetOr(video_insights, "labels", <<>>)
        OfLabel(label) ==
            LET apps == GetOr(label, "appearances", <<>>)
            IN  Concat([j \in 1..Len(apps) |->
                    IF LabelActive(apps[j], timestamp)
                    THEN <<[name       |-> Get(label, "name"),
                            confidence |-> GetOr(apps[j], "confidence", 0)]>>
                    ELSE <<>>])
    IN  Concat([i \in 1..Len(labels) |-> OfLabel(labels[i])])

ActiveFaces(video_insights, timestamp) ==
    LET faces == GetOr(video_insights, "faces", <<>>)
        OfFace(face) ==
            LET insts == GetOr(face, "instances", <<>>)
            IN  Concat([j \in 1..Len(insts) |->
                    IF FaceActive(insts[j], timestamp)
                    THEN <<[name       |-> Get(face, "name"),
                            confidence |-> GetOr(insts[j], "confidence", 0)]>>
                    ELSE <<>>])
    IN  Concat([i \in 1..Len(faces) |-> OfFace(faces[i])])

\* The confidence of an OCR entry is read from the OCR entity (line 154).
ActiveOcr(video_insights, timestamp) ==
    LET ocrs == GetOr(video_insights, "ocr", <<>>)
        OfOcr(ocr) ==
            LET insts == GetOr(ocr, "instances", <<>>)
            IN  Concat([j \in 1..Len(insts) |->
                    IF OcrActive(insts[j], timestamp)
                    THEN <<[text       |-> Get(ocr, "text"),
                            confidence |-> GetOr(ocr, "confidence", 0)]>>
                    ELSE <<>>])
    IN  Concat([i \in 1..Len(ocrs) |-> OfOcr(ocrs[i])])

\* list.extend(None) raises TypeError: an active shot whose "tags" is null.
ShotTagsRaise(video_insights, timestamp) ==
    LET shots == GetOr(video_insights, "shots", <<>>)
    IN  \E i \in 1..Len(shots) :
            ShotActive(shots[i], timestamp) /\ GetOr(shots[i], "tags", <<>>) = None

ActiveShotTags(video_insights, timestamp) ==
    LET shots == GetOr(video_insights, "shots", <<>>)
    IN  Concat([i \in 1..Len(shots) |->
            IF ShotActive(shots[i], timestamp)
            THEN GetOr(shots[i], "tags", <<>>) ELSE <<>>])

(***************************************************************************)
(* KeyframeBuilder: annotation_interface.extract_keyframes(metadata)       *)
(***************************************************************************)
\* Lines 33-92: resolve the video file, collect the timestamps, open the
\* capture.  Every raise leaves the function at once.
Start ==
    /\ pc = "start"
    /\ LET video_name  == Get(metadata, "name")
           named       == video_name # None /\ video_name # <<>>
           base_name   == BaseName(video_name)
           video_files == VideoFiles(store.files, base_name)
           found       == named /\ store.exists /\ video_files # <<>>
           listed      == GetOr(metadata, "videos", <<EmptyDict>>) # <<>>
       IN  IF ~found \/ ~listed
           THEN /\ pc' = "raised"
                /\ err' = IF found THEN "IndexError" ELSE "ValueError"
                /\ UNCHANGED <<video_path, cap, fps, timestamps, frame_index,
                               formatted_keyframes>>
           ELSE LET path  == video_files[1].name
                    video == VideoAt(store, path)
                IN  /\ video_path' = path
                    /\ timestamps' = CollectTimestamps(Insights(metadata))
                    /\ cap' = "held"
                    /\ frame_index' = 0
                    /\ formatted_keyframes' = <<>>
                    /\ IF video.opens
                       THEN pc' = "loop" /\ fps' = video.fps /\ err' = err
                       ELSE pc' = "raised" /\ err' = "ValueError" /\ fps' = fps
    /\ UNCHANGED <<metadata, store, disk>>
    /\ UNCHANGED <<detectVars, timeVars>>
    /\ UNCHANGED <<rerunVars, enhanceVars, annotateVars>>

\* The keyframe_data dictionary of lines 108-161.
KeyframeData(video_insights, index, timestamp, thumbnail_path) ==
    LET time_str == FormatTime(timestamp)
    IN  [frame_index   |-> index,
         keyframe_path |-> thumbnail_path,
         start_time    |-> time_str,
         end_time      |-> time_str,
         shot_tags     |-> ActiveShotTags(video_insights, timestamp),
         labels        |-> ActiveLabels(video_insights, timestamp),
         faces         |-> ActiveFaces(video_insights, timestamp),
         ocr_text      |-> ActiveOcr(video_insights, timestamp)]

\* The frame number sought for a timestamp (line 97); fps is a whole number
\* in the videos of this model.
FrameNumber(timestamp, rate) == FFloor(FMulInt(timestamp, rate))

\* Variant: the result of cap.read() is not tested.
FrameAvailableUntested(rd) == TRUE

\* Variant: a timestamp whose thumbnail is already stored is passed over.
FrameAvailableUnlessStored(rd) ==
    /\ rd.ret
    /\ ThumbnailPath(Sanitize(BaseName(Get(metadata, "name"))), frame_index)
          \notin DOMAIN disk

\* Line 103: if ret
FrameAvailable(rd) == rd.ret

\* Lines 95-163: one iteration of the loop over enumerate(timestamps).
Sample ==
    /\ pc = "loop"
    /\ frame_index < Len(timestamps)
    /\ LET timestamp      == timestamps[frame_index + 1]
           video_insights == Insights(metadata)
           rd   == ReadAt(VideoAt(store, video_path), FrameNumber(timestamp, fps))
           path == ThumbnailPath(Sanitize(BaseName(Get(metadata, "name"))),
                                 frame_index)
       IN  IF ~FrameAvailable(rd)
           THEN /\ frame_index' = frame_index + 1
                /\ UNCHANGED <<pc, err, formatted_keyframes, disk>>
           ELSE /\ disk' = (path :> rd.frame) @@ disk
                /\ IF ShotTagsRaise(video_insights, timestamp)
                   THEN /\ pc' = "raised"
                        /\ err' = "TypeError"
                        /\ UNCHANGED <<frame_index, formatted_keyframes>>
                   ELSE /\ formatted_keyframes' =
                              Append(formatted_keyframes,
                                     KeyframeData(video_insights, frame_index,
                                                  timestamp, path))
                        /\ frame_index' = frame_index + 1
                        /\ UNCHANGED <<pc, err>>
    /\ UNCHANGED <<metadata, store, video_path, cap, fps, timestamps>>
    /\ UNCHANGED <<detectVars, timeVars>>
    /\ UNCHANGED <<rerunVars, enhanceVars, annotateVars>>

\* Lines 165-166: cap.release(); return formatted_keyframes.
Finish ==
    /\ pc = "loop"
    /\ frame_index = Len(timestamps)
    /\ cap' = "released"
    /\ pc' = "returned"
    /\ UNCHANGED <<metadata, store, video_path, err, fps, timestamps,
                   frame_index, formatted_keyframes, disk>>
    /\ UNCHANGED <<detectVars, timeVars>>
    /\ UNCHANGED <<rerunVars, enhanceVars, annotateVars>>

\* The video files of a store with their contents exchanged: the raw videos
\* were replaced between two invocations.
Refilmed(dir) ==
    [dir EXCEPT !.files =
        [i \in 1..Len(dir.files) |->
            [name  |-> dir.files[i].name,
             video |-> dir.files[Len(dir.files) + 1 - i].video]]]

\* Lines 313-315: the interface loads a metadata file and calls
\* extract_keyframes again, on every rerun of the page.  The document is the
\* same or one of another name; the store is the same or refilmed; the
\* thumbnails written so far stay on disk.
Again(names) ==
    /\ pc \in {"returned", "raised"}
    /\ \E name \in names, replaced \in BOOLEAN :
          /\ metadata' = [metadata EXCEPT !.name = name]
          /\ store' = IF replaced THEN Refilmed(store) ELSE store
    /\ earlier' = [metadata |-> metadata, store |-> store, pc |-> pc,
                   formatted_keyframes |-> formatted_keyframes, disk |-> disk]
    /\ run' = run + 1
    /\ pc' = "start"
    /\ err' = "none"
    /\ cap' = "none"
    /\ video_path' = <<>>
    /\ fps' = 0
    /\ timestamps' = <<>>
    /\ frame_index' = 0
    /\ formatted_keyframes' = <<>>
    /\ UNCHANGED disk
    /\ UNCHANGED <<detectVars, timeVars, enhanceVars, annotateVars>>

(***************************************************************************)
(* SceneChangeDetector: metadata_extraction.extract_keyframes              *)
(***************************************************************************)
Abs(n) == IF n < 0 THEN -n ELSE n

RECURSIVE SumSeq(_)
SumSeq(q) == IF q = <<>> THEN 0 ELSE Head(q) + SumSeq(Tail(q))

\* cv2.absdiff(gray, prev_frame), summed over the pixels; np.mean divides the
\* sum by the number of pixels.
DiffSum(gray, prev) == SumSeq([i \in 1..Len(gray) |-> Abs(gray[i] - prev[i])])

\* Variant: a mean difference equal to the threshold counts as a change.
ExceedsOrMeetsThreshold(gray, prev, limit) ==
    DiffSum(gray, prev) >= limit * Len(gray)

\* diff_mean > threshold
ExceedsThreshold(gray, prev, limit) == DiffSum(gray, prev) > limit * Len(gray)

\* PROCESSED_DIR/keyframe_<frame_idx>.jpg
KeyframePath(index) == [dir |-> "processed", frame |-> index]

\* Lines 30-39: the capture is constructed and never tested with isOpened().
DetectStart ==
    /\ pc = "dstart"
    /\ cap' = "held"
    /\ keyframes' = <<>>
    /\ prev_frame' = NoImage
    /\ frame_idx' = 0
    /\ pc' = "dloop"
    /\ UNCHANGED <<metadata, store, video_path, err, fps, timestamps,
                   frame_index, formatted_keyframes, disk, threshold>>
    /\ UNCHANGED timeVars
    /\ UNCHANGED <<rerunVars, enhanceVars, annotateVars>>

\* ret, frame = cap.read() of the sequential scan: a capture that is not
\* opened, the end of the stream and an undecodable frame all give ret False.
ReadNext(video, index) ==
    IF video.opens THEN ReadAt(video, index) ELSE [ret |-> FALSE, frame |-> NoImage]

\* Lines 41-64: one iteration with ret True.
DetectFrame ==
    /\ pc = "dloop"
    /\ LET rd == ReadNext(VideoAt(store, video_path), frame_idx)
       IN  /\ rd.ret
           /\ LET gray == rd.frame
                  emit == prev_frame # NoImage
                            /\ ExceedsThreshold(gray, prev_frame, threshold)
                  path == KeyframePath(frame_idx)
              IN  /\ IF emit
                     THEN /\ disk' = (path :> rd.frame) @@ disk
                          /\ keyframes' =
                                Append(keyframes,
                                       [frame_index   |-> frame_idx,
                                        keyframe_path |-> path,
                                        diff_mean     |->
                                            <<DiffSum(gray, prev_frame), Len(gray)>>])
                     ELSE UNCHANGED <<disk, keyframes>>
                  /\ prev_frame' = gray
                  /\ frame_idx' = frame_idx + 1
    /\ UNCHANGED <<metadata, store, video_path, pc, err, cap, fps, timestamps,
                   frame_index, formatted_keyframes, threshold>>
    /\ UNCHANGED timeVars
    /\ UNCHANGED <<rerunVars, enhanceVars, annotateVars>>

\* Lines 42-44, 66-67: ret False breaks the loop; cap.release(); return.
DetectFinish ==
    /\ pc = "dloop"
    /\ ~ReadNext(VideoAt(store, video_path), frame_idx).ret
    /\ cap' = "released"
    /\ pc' = "returned"
    /\ UNCHANGED <<metadata, store, video_path, err, fps, timestamps,
                   frame_index, formatted_keyframes, disk>>
    /\ UNCHANGED <<detectVars, timeVars>>
    /\ UNCHANGED <<rerunVars, enhanceVars, annotateVars>>

(***************************************************************************)
(* metadata_extraction.enhance_keyframe, applied to each keyframe of the   *)
(* scene-change pass by process_video_metadata (lines 111-112).            *)
(***************************************************************************)
\* cv2.imread(path): None when no readable image is stored at the path.
Imread(files, path) == IF path \in DOMAIN files THEN files[path] ELSE NoImage

\* Variant: the detections are attached whether or not the image was read.
enhance_keyframe_unguarded(keyframe, img, objects, detected_faces) ==
    ("objects" :> objects) @@ ("faces" :> detected_faces) @@ keyframe

\* Lines 76-103, given the image read and the detections on it.  The
\* dictionary is updated in place, so the keyframe list holds the result.
enhance_keyframe(keyframe, img, objects, detected_faces) ==
    IF img = NoImage
    THEN keyframe
    ELSE ("objects" :> objects) @@ ("faces" :> detected_faces) @@ keyframe

\* What cv.detect_common_objects and cv.detect_face may report on an image,
\* zipped into the lists of lines 84-99.
ObjectDetections ==
    {<<>>, <<[label |-> "person", confidence |-> 90, bounding_box |-> <<0, 0, 1, 1>>]>>}

FaceDetections ==
    {<<>>, <<[bounding_box |-> <<0, 0, 1, 1>>, confidence |-> 99]>>}

\* One element of the comprehension of line 112.  The image file may have
\* been removed since the scan stored it.
Enhance ==
    /\ pc = "returned"
    /\ enhanced < Len(keyframes)
    /\ \E removed \in BOOLEAN, objects \in ObjectDetections,
          detected_faces \in FaceDetections :
          LET keyframe == keyframes[enhanced + 1]
              img == IF removed THEN NoImage
                     ELSE Imread(disk, keyframe.keyframe_path)
          IN  /\ image' = img
              /\ keyframes' =
                    [keyframes EXCEPT
                       ![enhanced + 1] =
                           enhance_keyframe(keyframe, img, objects, detected_faces)]
    /\ enhanced' = enhanced + 1
    /\ UNCHANGED <<metadata, store, video_path, pc, err, cap, fps, timestamps,
                   frame_index, formatted_keyframes, disk>>
    /\ UNCHANGED <<threshold, prev_frame, frame_idx>>
    /\ UNCHANGED <<timeVars, rerunVars, annotateVars>>

(***************************************************************************)
(* TimeCode round trip: parse_time, the formatting of lines 108-113, and   *)
(* parse_time again.                                                       *)
(***************************************************************************)
TParse ==
    /\ pc = "t_in"
    /\ t_val' = parse_time(t_in)
    /\ pc' = "t_parsed"
    /\ UNCHANGED <<t_in, t_str, t_back>>
    /\ UNCHANGED <<metadata, store, video_path, err, cap, fps, timestamps,
                   frame_index, formatted_keyframes, disk>>
    /\ UNCHANGED detectVars
    /\ UNCHANGED <<rerunVars, enhanceVars, annotateVars>>

TFormat ==
    /\ pc = "t_parsed"
    /\ t_str' = FormatTime(t_val)
    /\ pc' = "t_formatted"
    /\ UNCHANGED <<t_in, t_val, t_back>>
    /\ UNCHANGED <<metadata, store, video_path, err, cap, fps, timestamps,
                   frame_index, formatted_keyframes, disk>>
    /\ UNCHANGED detectVars
    /\ UNCHANGED <<rerunVars, enhanceVars, annotateVars>>

TReparse ==
    /\ pc = "t_formatted"
    /\ t_back' = parse_time(t_str)
    /\ pc' = "t_done"
    /\ UNCHANGED <<t_in, t_val, t_str>>
    /\ UNCHANGED <<metadata, store, video_path, err, cap, fps, timestamps,
                   frame_index, formatted_keyframes, disk>>
    /\ UNCHANGED detectVars
    /\ UNCHANGED <<rerunVars, enhanceVars, annotateVars>>

(***************************************************************************)
(* Inputs.  The documents, video stores and time strings the passes are    *)
(* started on.                                                             *)
(***************************************************************************)
\* Intervals of a document, all categories together.
MaxIntervals == 2

\* Frames of a video file given to the build.
MaxFrames == 2

\* Characters of an arbitrary time string.
MaxLen == 7

\* Largest seconds field of a canonical time string.
MaxSeconds == 1

\* A boundary is a time string, or the key is absent from the interval.
Boundaries == {T0, T1, Absent}

LabelNames == <<"cat", "dog", "sky", "sea">>
FaceNames  == <<"ann", "bob", "eve", "joe">>
OcrTexts   == <<"exit", "stop", "open", "sale">>

\* Sequences of non-empty sequences over S that hold n elements together:
\* the ways of giving n intervals to entities.
RECURSIVE Groups(_, _)
Groups(S, n) ==
    IF n = 0 THEN {<<>>}
    ELSE UNION { { <<g>> \o rest : g \in [1..k -> S], rest \in Groups(S, n - k) } :
                 k \in 1..n }

Confidences(C) == { "confidence" :> c : c \in C }

\* Intervals with boundaries from B, each merged with a dictionary of Extras.
Interval(startKey, endKey, B, Extras) ==
    { Entry(startKey, s) @@ Entry(endKey, e) @@ x :
      s \in B, e \in B, x \in Extras }

LabelLists(B, C, n) ==
    { [i \in 1..Len(G) |-> [name |-> LabelNames[i], appearances |-> G[i]]] :
      G \in Groups(Interval("startTime", "endTime", B, Confidences(C)), n) }

FaceLists(B, C, n) ==
    { [i \in 1..Len(G) |-> [name |-> FaceNames[i], instances |-> G[i]]] :
      G \in Groups(Interval("start", "end", B, Confidences(C)), n) }

OcrLists(B, C, n) ==
    { [i \in 1..Len(G) |->
          [text |-> OcrTexts[i], confidence |-> 80, instances |-> G[i]]] :
      G \in Groups(Interval("start", "end", B, Confidences(C)), n) }

TranscriptLists(B, n) ==
    { [i \in 1..Len(G) |-> [text |-> "hello", instances |-> G[i]]] :
      G \in Groups(Interval("adjustedStart", "adjustedEnd", B, {EmptyDict}), n) }

ShotLists(B, Tags, n) ==
    [1..n -> Interval("start", "end", B, { Entry("tags", g) : g \in Tags })]

\* Insights with at most n intervals.
InsightsUpTo(B, C, Tags, n) ==
    UNION { { [labels |-> l, faces |-> f, ocr |-> o, transcript |-> t, shots |-> s] :
              l \in LabelLists(B, C, c[1]), f \in FaceLists(B, C, c[2]),
              o \in OcrLists(B, C, c[3]), t \in TranscriptLists(B, c[4]),
              s \in ShotLists(B, Tags, c[5]) } :
            c \in { d \in [1..5 -> 0..n] : d[1] + d[2] + d[3] + d[4] + d[5] <= n } }

ClipName == <<"c", "l", "i", "p", "_", "7">>
ClipFile == <<"c", "l", "i", "p", ".", "m", "p", "4">>

\* Documents with at most n intervals; a shot's tags are a list or null.
Documents(n) ==
    { [name |-> ClipName, videos |-> <<[insights |-> ins]>>] :
      ins \in InsightsUpTo(Boundaries, {90}, {<<"wide">>, None}, n) }

\* Videos for the build: one-pixel frames, some of them undecodable.
BuildVideos ==
    {NoVideo} \cup
    { [opens |-> TRUE, fps |-> r, frames |-> fr] :
      r \in {0, 1},
      fr \in UNION { [1..k -> {<<0>>, NoImage}] : k \in 0..MaxFrames } }

\* Videos whose frames all decode, and the file that does not open.
PlainVideos ==
    {NoVideo} \cup
    { [opens |-> TRUE, fps |-> r, frames |-> [i \in 1..MaxFrames |-> <<0>>]] :
      r \in {0, 1} }

\* data/raw_videos: empty, or holding the clip's file.
StoresOf(videos) ==
    {[exists |-> TRUE, files |-> <<>>]} \cup
    { [exists |-> TRUE, files |-> <<[name |-> ClipFile, video |-> v]>>] :
      v \in videos }

IdleBuild ==
    /\ metadata = EmptyDict
    /\ timestamps = <<>>
    /\ frame_index = 0
    /\ formatted_keyframes = <<>>
    /\ fps = 0

IdleDetect ==
    /\ threshold = 0
    /\ keyframes = <<>>
    /\ prev_frame = NoImage
    /\ frame_idx = 0

IdleTime ==
    /\ t_in = None
    /\ t_val = FZero
    /\ t_str = <<>>
    /\ t_back = FZero

\* No invocation came before this one.
NoRun == [metadata |-> EmptyDict, store |-> [exists |-> FALSE, files |-> <<>>],
          pc |-> "none", formatted_keyframes |-> <<>>, disk |-> EmptyDict]

IdleRerun ==
    /\ run = 1
    /\ earlier = NoRun

IdleEnhance ==
    /\ enhanced = 0
    /\ image = NoImage

NoEvent == [trigger |-> "none", outcome |-> "none", saved |-> "none"]

NothingWritten == [base_name |-> <<>>, annotations |-> EmptyDict]

\* A browser session that has not run the annotation page yet.
IdleAnnotate ==
    /\ metadata_file = "none"
    /\ session_keys = {}
    /\ has_unsaved_changes = FALSE
    /\ session_state = EmptyDict
    /\ processed = EmptyDict
    /\ page_keyframes = <<>>
    /\ event = NoEvent
    /\ written = NothingWritten

\* A build pass about to start: any document on a plain store, or a
\* document of fewer intervals on a store of any video.
Init ==
    /\ \/ metadata \in Documents(MaxIntervals) /\ store \in StoresOf(PlainVideos)
       \/ metadata \in Documents(MaxIntervals - 1) /\ store \in StoresOf(BuildVideos)
    /\ video_path = <<>>
    /\ pc = "start"
    /\ err = "none"
    /\ cap = "none"
    /\ fps = 0
    /\ timestamps = <<>>
    /\ frame_index = 0
    /\ formatted_keyframes = <<>>
    /\ disk = EmptyDict
    /\ IdleDetect
    /\ IdleTime
    /\ IdleRerun
    /\ IdleEnhance
    /\ IdleAnnotate

Next == Start \/ Sample \/ Finish

Spec == Init /\ [][Next]_vars

(***************************************************************************)
(* A session of builds on a store of two video files.                      *)
(***************************************************************************)
\* Invocations of the build in one session.
MaxRuns == 2

\* Documents named a-b_7, a.b_7 and a_7; the files a-b.mp4 and a.b.mp4.
TakeName   == <<"a", "-", "b", "_", "7">>
RetakeName == <<"a", ".", "b", "_", "7">>
ShortName  == <<"a", "_", "7">>
TakeFile   == <<"a", "-", "b", ".", "m", "p", "4">>
RetakeFile == <<"a", ".", "b", ".", "m", "p", "4">>

SessionNames == {TakeName, RetakeName, ShortName}

\* The field names an interval's boundaries, and an entity's list of
\* intervals, are written with in insights documents.
BoundaryKeys == {<<"startTime", "endTime">>, <<"adjustedStart", "adjustedEnd">>,
                 <<"start", "end">>}

ListKeys == {"appearances", "instances"}

\* Insights of one interval [0, 1.001], in each category, written with each
\* pair of boundary names and each list name.
VariantInsights ==
    LET none == [labels |-> <<>>, faces |-> <<>>, ocr |-> <<>>,
                 transcript |-> <<>>, shots |-> <<>>]
        iv(k) == (k[1] :> T0) @@ (k[2] :> T1) @@ ("confidence" :> 90)
        entity(nameKey, name, l, k) == (nameKey :> name) @@ (l :> <<iv(k)>>)
    IN  UNION {
          { [none EXCEPT !.labels = <<entity("name", "cat", l, k)>>],
            [none EXCEPT !.faces = <<entity("name", "ann", l, k)>>],
            [none EXCEPT !.ocr = <<entity("text", "exit", l, k)>>],
            [none EXCEPT !.transcript = <<entity("text", "hello", l, k)>>],
            [none EXCEPT !.shots = <<iv(k) @@ ("tags" :> <<"wide">>)>>] } :
          l \in ListKeys, k \in BoundaryKeys }

SessionDocuments ==
    { [d EXCEPT !.name = n] : d \in Documents(MaxIntervals - 1), n \in SessionNames }
      \cup
    { [name |-> TakeName, videos |-> <<[insights |-> ins]>>] : ins \in VariantInsights }

\* The two files hold videos of different pixels, listed in either order.
SessionStores ==
    LET take   == [name |-> TakeFile,
                   video |-> [opens |-> TRUE, fps |-> 1,
                              frames |-> [i \in 1..MaxFrames |-> <<0>>]]]
        retake == [name |-> RetakeFile,
                   video |-> [opens |-> TRUE, fps |-> 1,
                              frames |-> [i \in 1..MaxFrames |-> <<1>>]]]
    IN  { [exists |-> TRUE, files |-> <<take, retake>>],
          [exists |-> TRUE, files |-> <<retake, take>>] }

InitSession ==
    /\ metadata \in SessionDocuments
    /\ store \in SessionStores
    /\ video_path = <<>>
    /\ pc = "start"
    /\ err = "none"
    /\ cap = "none"
    /\ fps = 0
    /\ timestamps = <<>>
    /\ frame_index = 0
    /\ formatted_keyframes = <<>>
    /\ disk = EmptyDict
    /\ IdleDetect
    /\ IdleTime
    /\ IdleRerun
    /\ IdleEnhance
    /\ IdleAnnotate

Rerun == run < MaxRuns /\ Again(SessionNames)

NextSession == Start \/ Sample \/ Finish \/ Rerun

SpecSession == InitSession /\ [][NextSession]_vars

(***************************************************************************)
(* The scene-change pass on a video path.                                  *)
(***************************************************************************)
\* Frames of a video given to the scene-change pass.
MaxScan == 3

GrayLevels == {0, 50, 100}

\* Two-pixel gray images.
Images == [1..2 -> GrayLevels]

ScanVideos ==
    { [opens |-> o, fps |-> 1, frames |-> fr] :
      o \in BOOLEAN,
      fr \in UNION { [1..k -> Images \cup {NoImage}] : k \in 0..MaxScan } }

MissingFile == <<"g", "o", "n", "e", ".", "m", "p", "4">>

\* The default threshold, and one that a mean difference of the images
\* above can equal.
Thresholds == {40, 50}

InitDetect ==
    /\ store \in { [exists |-> TRUE, files |-> <<[name |-> ClipFile, video |-> v]>>] :
                   v \in ScanVideos }
    /\ video_path \in {ClipFile, MissingFile}
    /\ threshold \in Thresholds
    /\ pc = "dstart"
    /\ err = "none"
    /\ cap = "none"
    /\ disk = EmptyDict
    /\ keyframes = <<>>
    /\ prev_frame = NoImage
    /\ frame_idx = 0
    /\ IdleBuild
    /\ IdleTime
    /\ IdleRerun
    /\ IdleEnhance
    /\ IdleAnnotate

NextDetect == DetectStart \/ DetectFrame \/ DetectFinish \/ Enhance

SpecDetect == InitDetect /\ [][NextDetect]_vars

(***************************************************************************)
(* TimeCode on its own.                                                    *)
(***************************************************************************)
TimeChars == {"1", ":", ".", "x"}

ArbitraryStrings == UNION { [1..k -> TimeChars] : k \in 0..MaxLen }

\* HH:MM:SS.mmm for every millisecond of the first seconds, and the
\* documented example 1:02:03.450.
CanonicalStrings ==
    { TimeStr(0, 0, sec, ms) : sec \in 0..MaxSeconds, ms \in 0..999 }
        \cup {<<"1", ":", "0", "2", ":", "0", "3", ".", "4", "5", "0">>}

InitTime ==
    /\ t_in \in ArbitraryStrings \cup CanonicalStrings \cup {None, DefaultTime}
    /\ t_val = FZero
    /\ t_str = <<>>
    /\ t_back = FZero
    /\ pc = "t_in"
    /\ err = "none"
    /\ cap = "none"
    /\ store = [exists |-> FALSE, files |-> <<>>]
    /\ video_path = <<>>
    /\ disk = EmptyDict
    /\ IdleBuild
    /\ IdleDetect
    /\ IdleRerun
    /\ IdleEnhance
    /\ IdleAnnotate

NextTime == TParse \/ TFormat \/ TReparse

SpecTime == InitTime /\ [][NextTime]_vars

(***************************************************************************)
(* The annotation page (annotation_interface, lines 297-572).  Streamlit   *)
(* runs the function from its first line on every interaction: the choice  *)
(* of a metadata file, an edit of a text area, a press of Save             *)
(* Annotations.  st.session_state outlives the runs and the change of the  *)
(* metadata file; data/processed holds one annotations file per base name. *)
(***************************************************************************)
\* str.strip() of a text whose only whitespace character is the blank.
RECURSIVE LStrip(_)
LStrip(text) == IF text # <<>> /\ Head(text) = " " THEN LStrip(Tail(text)) ELSE text

RECURSIVE RStrip(_)
RStrip(text) ==
    IF text # <<>> /\ text[Len(text)] = " "
    THEN RStrip(SubSeq(text, 1, Len(text) - 1)) ELSE text

Strip(text) == RStrip(LStrip(text))

\* Variant: every text that is not empty is kept, blank or not.
NonEmpty(annotation) == annotation # <<>>

\* `annotation and annotation.strip()` (line 461).
NonBlank(annotation) == annotation # <<>> /\ Strip(annotation) # <<>>

\* f"annot_{keyframe['frame_index']}" (lines 346 and 543).
AnnotKey(index) == <<"a", "n", "n", "o", "t", "_">> \o DigitsOf(index)

\* key.split("_")[1] (line 459).
FrameIdx(key) == Split(key, "_")[2]

\* The metadata files of the session: whether the file loads, the video
\* name its document holds, and the frame indices of the keyframes that
\* extract_keyframes returns for the document.
Library ==
    [first  |-> [loads |-> TRUE,  name |-> TakeName,   frames |-> <<0, 1>>],
     second |-> [loads |-> TRUE,  name |-> ShortName,  frames |-> <<0>>],
     empty  |-> [loads |-> TRUE,  name |-> RetakeName, frames |-> <<>>],
     broken |-> [loads |-> FALSE, name |-> <<>>,       frames |-> <<>>]]

MetadataFiles == DOMAIN Library

\* The texts typed into the text areas of a video's page: the empty text,
\* a blank one, and a note that no other video's page is given.
NoteOf ==
    [first  |-> <<"x">>,
     second |-> <<" ", "y">>,
     empty  |-> <<"z">>,
     broken |-> <<"z">>]

TextsFor(file) == {<<>>, <<" ">>, NoteOf[file]}

\* Lines 326-339: the saved annotations of the video, {} without a file.
SavedAnnotations(base_name) == GetOr(processed, base_name, EmptyDict)

\* Lines 341-347: a saved entry is loaded into the first keyframe whose
\* str(frame_index) equals the entry's key.
LoadsInto(kfs, i, saved) ==
    /\ DigitsOf(kfs[i].frame_index) \in DOMAIN saved
    /\ \A j \in 1..(i - 1) : kfs[j].frame_index # kfs[i].frame_index

LoadedKeyframes(kfs, saved) ==
    [i \in 1..Len(kfs) |->
        IF LoadsInto(kfs, i, saved)
        THEN [frame_index |-> kfs[i].frame_index,
              annotation  |-> saved[DigitsOf(kfs[i].frame_index)]]
        ELSE kfs[i]]

LoadedState(state, kfs, saved) ==
    LET loaded == {i \in 1..Len(kfs) : LoadsInto(kfs, i, saved)}
        keys   == {AnnotKey(kfs[i].frame_index) : i \in loaded}
        From(key) == CHOOSE i \in loaded : AnnotKey(kfs[i].frame_index) = key
    IN  [key \in DOMAIN state \cup keys |->
            IF key \in keys THEN saved[DigitsOf(kfs[From(key)].frame_index)]
            ELSE state[key]]

\* Lines 457-462: the dictionary written by Save Annotations, built from
\* every annot_* key of the session state.
CollectedAnnotations(state) ==
    LET kept == {key \in DOMAIN state : NonBlank(state[key])}
    IN  [idx \in {FrameIdx(key) : key \in kept} |->
            state[CHOOSE key \in kept : FrameIdx(key) = idx]]

\* Lines 541-550: a text area whose key is in the session state shows the
\* text of the state; otherwise it shows value= and its key enters the
\* state with that text.
RenderedState(state, kfs) ==
    LET keys == {AnnotKey(kfs[i].frame_index) : i \in 1..Len(kfs)}
        Of(key) == CHOOSE i \in 1..Len(kfs) : AnnotKey(kfs[i].frame_index) = key
    IN  [key \in DOMAIN state \cup keys |->
            IF key \in DOMAIN state THEN state[key]
            ELSE GetOr(kfs[Of(key)], "annotation", <<>>)]

\* Lines 553-554: keyframe["annotation"] = st.session_state[key].
RenderedKeyframes(state, kfs) ==
    [i \in 1..Len(kfs) |->
        [frame_index |-> kfs[i].frame_index,
         annotation  |-> RenderedState(state, kfs)[AnnotKey(kfs[i].frame_index)]]]

\* At the end of a run Streamlit may discard the state of the text areas
\* that the run did not draw.
KeptState(state, kfs, drop) ==
    IF drop
    THEN [key \in DOMAIN state
                    \cap {AnnotKey(kfs[i].frame_index) : i \in 1..Len(kfs)} |->
            state[key]]
    ELSE state

\* Variant: the flag is cleared whether or not the file was written.
FlagAfterSaveAttempt(flag, writable) == FALSE

\* Lines 455-475: line 471 is reached only when the file was written.
FlagAfterSave(flag, writable) == IF writable THEN FALSE ELSE flag

\* One run of annotation_interface(metadata_file): clicked says that Save
\* Annotations was pressed, writable that the annotations file can be
\* opened for writing.
annotation_interface(file, clicked, state, flag, writable, drop) ==
    LET doc       == Library[file]
        started   == IF "has_unsaved_changes" \in session_keys THEN flag ELSE FALSE
        keyframes_ == [i \in 1..Len(doc.frames) |-> [frame_index |-> doc.frames[i]]]
        base_name == BaseName(doc.name)
        saved     == SavedAnnotations(base_name)
        loaded    == LoadedState(state, keyframes_, saved)
        merged    == LoadedKeyframes(keyframes_, saved)
    IN  IF ~doc.loads
        THEN [outcome |-> "load_error", saved |-> "none", flag |-> started,
              state |-> KeptState(state, <<>>, drop), files |-> processed,
              keyframes |-> <<>>]
        ELSE IF merged = <<>>
        THEN [outcome |-> "no_keyframes", saved |-> "none", flag |-> started,
              state |-> KeptState(loaded, <<>>, drop), files |-> processed,
              keyframes |-> <<>>]
        ELSE [outcome   |-> "rendered",
              saved     |-> IF ~clicked THEN "none"
                            ELSE IF writable THEN "written" ELSE "failed",
              flag      |-> IF clicked THEN FlagAfterSave(started, writable)
                            ELSE started,
              state     |-> KeptState(RenderedState(loaded, merged), merged, drop),
              files     |-> IF clicked /\ writable
                            THEN [b \in DOMAIN processed \cup {base_name} |->
                                     IF b = base_name
                                     THEN CollectedAnnotations(loaded)
                                     ELSE processed[b]]
                            ELSE processed,
              keyframes |-> RenderedKeyframes(loaded, merged)]

\* What the keyframes of a page hold, by str(frame_index).
AnnotationsOf(kfs) ==
    [idx \in {DigitsOf(kfs[i].frame_index) : i \in 1..Len(kfs)} |->
        kfs[CHOOSE i \in 1..Len(kfs) : DigitsOf(kfs[i].frame_index) = idx].annotation]

Page(file, trigger, clicked, state, flag, writable, drop) ==
    LET page == annotation_interface(file, clicked, state, flag, writable, drop)
    IN  /\ metadata_file' = file
        /\ session_keys' = session_keys \cup {"has_unsaved_changes", "annotations"}
        /\ has_unsaved_changes' = page.flag
        /\ session_state' = page.state
        /\ processed' = page.files
        /\ page_keyframes' = page.keyframes
        /\ event' = [trigger |-> trigger, outcome |-> page.outcome,
                     saved |-> page.saved]
        /\ written' = IF page.saved = "written"
                      THEN [base_name   |-> BaseName(Library[file].name),
                            annotations |-> AnnotationsOf(page.keyframes)]
                      ELSE written
        /\ UNCHANGED <<buildVars, detectVars, timeVars, rerunVars, enhanceVars>>

\* app.py calls annotation_interface on the metadata file chosen in the
\* page's select box.
Select ==
    /\ pc = "page"
    /\ \E file \in MetadataFiles, drop \in BOOLEAN :
         Page(file, "select", FALSE, session_state, has_unsaved_changes, TRUE, drop)

\* The user changes the text of a text area: the widget's state takes the
\* text, on_change (line 549) sets the flag, and the script runs again.
Edit ==
    /\ pc = "page"
    /\ event.outcome = "rendered"
    /\ \E i \in 1..Len(page_keyframes), drop \in BOOLEAN :
         LET key == AnnotKey(page_keyframes[i].frame_index)
         IN  \E text \in TextsFor(metadata_file) \ {session_state[key]} :
                 Page(metadata_file, "edit", FALSE,
                      [session_state EXCEPT ![key] = text], TRUE, TRUE, drop)

\* The user presses Save Annotations (line 454).
SaveClick ==
    /\ pc = "page"
    /\ event.outcome = "rendered"
    /\ \E writable \in BOOLEAN, drop \in BOOLEAN :
         Page(metadata_file, "save", TRUE, session_state, has_unsaved_changes,
              writable, drop)

InitAnnotate ==
    /\ pc = "page"
    /\ err = "none"
    /\ cap = "none"
    /\ store = [exists |-> FALSE, files |-> <<>>]
    /\ video_path = <<>>
    /\ disk = EmptyDict
    /\ IdleBuild
    /\ IdleDetect
    /\ IdleTime
    /\ IdleRerun
    /\ IdleEnhance
    /\ IdleAnnotate

NextAnnotate == Select \/ Edit \/ SaveClick

SpecAnnotate == InitAnnotate /\ [][NextAnnotate]_vars

(***************************************************************************)
(* Properties of the build pass (specification Spec).                      *)
(***************************************************************************)
\* The positions <<i, j>> of the intervals of a list of entities.
IntervalsOf(entities, key) ==
    UNION { { <<i, j>> : j \in 1..Len(GetOr(entities[i], key, <<>>)) } :
            i \in 1..Len(entities) }

IntervalAt(entities, key, p) == GetOr(entities[p[1]], key, <<>>)[p[2]]

\* parse(start) <= t <= parse(end), an absent boundary read as "0:00:00".
Within(interval, startKey, endKey, t) ==
    /\ FLeq(ParseTime(GetOr(interval, startKey, DefaultTime)), t)
    /\ FLeq(t, ParseTime(GetOr(interval, endKey, DefaultTime)))

Occurrences(q, x) == Cardinality({k \in 1..Len(q) : q[k] = x})

\* The timestamp a keyframe was sampled at.
TimestampOf(kf) == timestamps[kf.frame_index + 1]

EntityContribution(kf, field, nameKey, entities, listKey, nameOf, sk, ek) ==
    \A i \in 1..Len(entities) :
        Cardinality({k \in 1..Len(kf[field]) : kf[field][k][nameKey] = nameOf[i]})
          = Cardinality({p \in IntervalsOf(entities, listKey) :
                           /\ Get(entities[p[1]], nameKey) = nameOf[i]
                           /\ Within(IntervalAt(entities, listKey, p), sk, ek,
                                     TimestampOf(kf))})

ShotContribution(kf, shots) ==
    \A g \in {"wide", "dark"} :
        Occurrences(kf.shot_tags, g)
          = SumSeq([i \in 1..Len(shots) |->
                      IF Within(shots[i], "start", "end", TimestampOf(kf))
                      THEN Occurrences(GetOr(shots[i], "tags", <<>>), g) ELSE 0])

\* C1: every keyframe holds, for each label, face and OCR entity, exactly one
\* entry per interval of the entity with parse(start) <= t <= parse(end),
\* t being the keyframe's timestamp, and holds the tags of exactly the
\* shots with parse(start) <= t <= parse(end): an interval contributes if
\* and only if it contains t, both ends included.
C1_ClosedIntervalCorrelation ==
    \A n \in 1..Len(formatted_keyframes) :
        LET kf == formatted_keyframes[n]
            vi == Insights(metadata)
        IN  /\ EntityContribution(kf, "labels", "name", vi.labels, "appearances",
                                  LabelNames, "startTime", "endTime")
            /\ EntityContribution(kf, "faces", "name", vi.faces, "instances",
                                  FaceNames, "start", "end")
            /\ EntityContribution(kf, "ocr_text", "text", vi.ocr, "instances",
                                  OcrTexts, "start", "end")
            /\ ShotContribution(kf, vi.shots)

\* A returned build with a label interval [start, end], start < end, that is
\* listed by the keyframe sampled at start and by the one sampled at end.
C1_Witness ==
    /\ pc = "returned"
    /\ Len(formatted_keyframes) = 2
    /\ \E p \in IntervalsOf(Insights(metadata).labels, "appearances") :
         LET a == IntervalAt(Insights(metadata).labels, "appearances", p)
         IN  /\ ParseTime(Get(a, "startTime")) = timestamps[1]
             /\ ParseTime(Get(a, "endTime")) = timestamps[2]
             /\ \A n \in 1..2 : Len(formatted_keyframes[n].labels) >= 1

FLess(a, b) == FLeq(a, b) /\ a # b

\* C2: the timestamp sequence the build iterates over is strictly
\* ascending, so no value appears twice.
C2_StrictlyAscending ==
    \A i \in 1..(Len(timestamps) - 1) : FLess(timestamps[i], timestamps[i + 1])

\* The boundaries <<start, end>> (parsed) of the intervals that seed
\* timestamps: label appearances, transcript instances, shots.
SeedPairs ==
    LET vi == Insights(metadata)
    IN  { <<ParseTime(Get(IntervalAt(vi.labels, "appearances", p), "startTime")),
            ParseTime(Get(IntervalAt(vi.labels, "appearances", p), "endTime"))>> :
          p \in IntervalsOf(vi.labels, "appearances") }
        \cup
        { <<ParseTime(Get(IntervalAt(vi.transcript, "instances", p), "adjustedStart")),
            ParseTime(Get(IntervalAt(vi.transcript, "instances", p), "adjustedEnd"))>> :
          p \in IntervalsOf(vi.transcript, "instances") }
        \cup
        { <<ParseTime(Get(vi.shots[i], "start")), ParseTime(Get(vi.shots[i], "end"))>> :
          i \in 1..Len(vi.shots) }

SeedCount ==
    LET vi == Insights(metadata)
    IN  Cardinality(IntervalsOf(vi.labels, "appearances"))
          + Cardinality(IntervalsOf(vi.transcript, "instances")) + Len(vi.shots)

\* Two seeding intervals that share a boundary, [0, 1.001] and [1.001, 0]
\* or the like, and the two timestamps collected from them.
C2_Witness ==
    /\ cap = "held"
    /\ SeedCount = 2
    /\ \E b \in SeedPairs : b[1] # b[2]
    /\ Len(timestamps) = 2

\* C3: once collected, the timestamps are exactly the parsed start and end
\* boundaries of label appearances, transcript instances and shots.
C3_SeededByLabelsTranscriptShots ==
    cap # "none" =>
        LET seeds == SeedPairs
        IN  /\ \A k \in 1..Len(timestamps) :
                  \E b \in seeds : timestamps[k] \in {b[1], b[2]}
            /\ \A b \in seeds :
                  \A n \in 1..2 : \E k \in 1..Len(timestamps) : timestamps[k] = b[n]

\* A document whose only intervals are face or OCR intervals with a boundary
\* at 1.001 s, and no timestamp collected from it.
C3_Witness ==
    /\ cap # "none"
    /\ timestamps = <<>>
    /\ \E p \in IntervalsOf(Insights(metadata).faces, "instances") :
          Get(IntervalAt(Insights(metadata).faces, "instances", p), "end") = T1
    /\ \E p \in IntervalsOf(Insights(metadata).ocr, "instances") :
          Get(IntervalAt(Insights(metadata).ocr, "instances", p), "start") = T1

\* C6 (as claimed): in a returned list the element at position k (0-based)
\* has frame_index = k.
C6_IndexIsPosition ==
    pc = "returned" =>
        \A n \in 1..Len(formatted_keyframes) :
            formatted_keyframes[n].frame_index = n - 1

\* The timestamps (0-based positions) whose frame can be read: the frame
\* number is inside the stream and the frame decodes.
ReadablePositions ==
    LET video == VideoAt(store, video_path)
    IN  { k \in 0..(Len(timestamps) - 1) :
            LET n == FrameNumber(timestamps[k + 1], fps)
            IN  n < Len(video.frames) /\ video.frames[n + 1] # NoImage }

\* C7: a returned list holds exactly one keyframe for each collected
\* timestamp whose frame could be read and none for the others, in ascending
\* timestamp order; and no pass is ended by an exception at a timestamp
\* whose frame could not be read.
C7_UnreadableFramesSkipped ==
    /\ pc = "returned" =>
          /\ Len(formatted_keyframes) = Cardinality(ReadablePositions)
          /\ \A n \in 1..Len(formatted_keyframes) :
                formatted_keyframes[n].frame_index \in ReadablePositions
          /\ \A n \in 1..(Len(formatted_keyframes) - 1) :
                FLess(TimestampOf(formatted_keyframes[n]),
                      TimestampOf(formatted_keyframes[n + 1]))
    /\ (pc = "raised" /\ video_path # <<>> /\ frame_index < Len(timestamps)
          /\ VideoAt(store, video_path).opens)
          => frame_index \in ReadablePositions

\* A returned build that skipped its first timestamp and emitted a keyframe
\* for the second.
C7_Witness ==
    /\ pc = "returned"
    /\ Len(timestamps) = 2
    /\ ReadablePositions = {1}
    /\ Len(formatted_keyframes) = 1

\* C9 (as claimed): the build on a source that opens and reports fps <= 0
\* samples no frame: it emits no keyframe.
C9_NonPositiveFpsFails ==
    (cap # "none" /\ VideoAt(store, video_path).opens
       /\ VideoAt(store, video_path).fps <= 0)
      => formatted_keyframes = <<>>

\* C10 (as claimed): no pass ends, by return or by exception, with its
\* capture handle still held.
C10_HandleReleasedOnExit ==
    pc \in {"returned", "raised"} => cap # "held"

\* C18 (as claimed): a build of a document from which no timestamp is
\* collected ends by returning an empty list, never by an exception.
C18_EmptyDocumentReturnsEmpty ==
    (SeedCount = 0 /\ pc \in {"returned", "raised"})
      => (pc = "returned" /\ err = "none" /\ formatted_keyframes = <<>>)

\* C18 (amended): when the document's video file is found and opens, a build
\* of a document from which no timestamp is collected samples nothing,
\* raises nothing and returns an empty list.
C18_EmptyDocumentOnOpenedVideo ==
    (SeedCount = 0 /\ video_path # <<>> /\ VideoAt(store, video_path).opens)
      => /\ pc \in {"loop", "returned"}
         /\ err = "none"
         /\ timestamps = <<>>
         /\ formatted_keyframes = <<>>
         /\ disk = EmptyDict

\* A build has returned the empty list for a document that holds a face
\* interval and no label, transcript or shot, on a video whose frames decode.
C18_Witness ==
    /\ pc = "returned"
    /\ SeedCount = 0
    /\ Insights(metadata).faces # <<>>
    /\ ReadAt(VideoAt(store, video_path), 0).ret
    /\ formatted_keyframes = <<>>

\* The intervals of an entity, at positions 1..Len, that contain t.
ActivePositions(entity, listKey, startKey, endKey, t) ==
    { j \in 1..Len(entity[listKey]) :
        /\ FLeq(ParseTime(GetOr(entity[listKey][j], startKey, DefaultTime)), t)
        /\ FLeq(t, ParseTime(GetOr(entity[listKey][j], endKey, DefaultTime))) }

\* The entries of a keyframe's field that name the entity.
EntriesFor(kf, field, nameKey, entity) ==
    { k \in 1..Len(kf[field]) : kf[field][k][nameKey] = entity[nameKey] }

\* C19: in every keyframe, each label, face and OCR entity has as many
\* entries as it has intervals active at the keyframe's timestamp: k active
\* intervals give k entries, not one.
C19_OneEntryPerActiveInterval ==
    \A n \in 1..Len(formatted_keyframes) :
        LET kf == formatted_keyframes[n]
            t  == timestamps[kf.frame_index + 1]
            vi == Insights(metadata)
        IN  /\ \A i \in 1..Len(vi.labels) :
                  Cardinality(EntriesFor(kf, "labels", "name", vi.labels[i]))
                    = Cardinality(ActivePositions(vi.labels[i], "appearances",
                                                  "startTime", "endTime", t))
            /\ \A i \in 1..Len(vi.faces) :
                  Cardinality(EntriesFor(kf, "faces", "name", vi.faces[i]))
                    = Cardinality(ActivePositions(vi.faces[i], "instances",
                                                  "start", "end", t))
            /\ \A i \in 1..Len(vi.ocr) :
                  Cardinality(EntriesFor(kf, "ocr_text", "text", vi.ocr[i]))
                    = Cardinality(ActivePositions(vi.ocr[i], "instances",
                                                  "start", "end", t))

\* A keyframe at 1.001 s of a document whose one label has two appearances
\* active at 1.001 s, the label being listed twice.
C19_Witness ==
    /\ Len(formatted_keyframes) >= 1
    /\ LET kf == formatted_keyframes[Len(formatted_keyframes)]
           vi == Insights(metadata)
       IN  /\ timestamps[kf.frame_index + 1] = ParseTime(T1)
           /\ Len(vi.labels) = 1
           /\ Cardinality(ActivePositions(vi.labels[1], "appearances", "startTime",
                                          "endTime", ParseTime(T1))) = 2
           /\ Len(kf.labels) = 2

\* The confidences of the intervals of the entities that contain t, in
\* document order; 0 for an interval that has none.
RECURSIVE ActiveConfidences(_, _, _, _, _)
ActiveConfidences(entities, listKey, startKey, endKey, t) ==
    IF entities = <<>> THEN <<>>
    ELSE LET entity == Head(entities)
             OfInterval(j) ==
                 IF j \in ActivePositions(entity, listKey, startKey, endKey, t)
                 THEN <<GetOr(entity[listKey][j], "confidence", 0)>> ELSE <<>>
         IN  Concat([j \in 1..Len(entity[listKey]) |-> OfInterval(j)])
               \o ActiveConfidences(Tail(entities), listKey, startKey, endKey, t)

\* C20 (as claimed): the entries of a keyframe carry, in every category, the
\* confidences of the intervals that are active at its timestamp, each entry
\* that of its own interval.
C20_EntryCarriesIntervalConfidence ==
    \A n \in 1..Len(formatted_keyframes) :
        LET kf == formatted_keyframes[n]
            t  == timestamps[kf.frame_index + 1]
            vi == Insights(metadata)
        IN  /\ [k \in 1..Len(kf.labels) |-> kf.labels[k].confidence]
                  = ActiveConfidences(vi.labels, "appearances", "startTime",
                                      "endTime", t)
            /\ [k \in 1..Len(kf.faces) |-> kf.faces[k].confidence]
                  = ActiveConfidences(vi.faces, "instances", "start", "end", t)
            /\ [k \in 1..Len(kf.ocr_text) |-> kf.ocr_text[k].confidence]
                  = ActiveConfidences(vi.ocr, "instances", "start", "end", t)


\* C22: a keyframe emitted at the timestamp that the start or the end of a
\* label appearance seeded lists that label when parse(startTime) <=
\* parse(endTime), and a keyframe emitted at the start or the end of a shot
\* with parse(start) <= parse(end) holds each tag of that shot.
C22_SeedingBoundaryIsCorrelated ==
    \A n \in 1..Len(formatted_keyframes) :
        LET kf == formatted_keyframes[n]
            vi == Insights(metadata)
            t  == TimestampOf(kf)
        IN  /\ \A p \in IntervalsOf(vi.labels, "appearances") :
                  LET a  == IntervalAt(vi.labels, "appearances", p)
                      ps == ParseTime(Get(a, "startTime"))
                      pe == ParseTime(Get(a, "endTime"))
                  IN  (t \in {ps, pe} /\ FLeq(ps, pe)) =>
                          \E k \in 1..Len(kf.labels) :
                              kf.labels[k].name = Get(vi.labels[p[1]], "name")
            /\ \A i \in 1..Len(vi.shots) :
                  LET ps == ParseTime(Get(vi.shots[i], "start"))
                      pe == ParseTime(Get(vi.shots[i], "end"))
                  IN  (t \in {ps, pe} /\ FLeq(ps, pe)) =>
                          \A g \in {"wide", "dark"} :
                              Occurrences(GetOr(vi.shots[i], "tags", <<>>), g) > 0
                                => Occurrences(kf.shot_tags, g) > 0

\* A returned build whose second keyframe was sampled at the end of a label
\* appearance that starts earlier, and lists the label.
C22_Witness ==
    /\ pc = "returned"
    /\ \E n \in 1..Len(formatted_keyframes) :
         \E p \in IntervalsOf(Insights(metadata).labels, "appearances") :
            LET kf == formatted_keyframes[n]
                a  == IntervalAt(Insights(metadata).labels, "appearances", p)
            IN  /\ FLess(ParseTime(Get(a, "startTime")), ParseTime(Get(a, "endTime")))
                /\ ParseTime(Get(a, "endTime")) = TimestampOf(kf)
                /\ \E k \in 1..Len(kf.labels) :
                      kf.labels[k].name = Get(Insights(metadata).labels[p[1]], "name")
    /\ \E n \in 1..Len(formatted_keyframes) :
         \E i \in 1..Len(Insights(metadata).shots) :
            LET kf == formatted_keyframes[n]
                sh == Insights(metadata).shots[i]
            IN  /\ ParseTime(Get(sh, "start")) = TimestampOf(kf)
                /\ FLeq(ParseTime(Get(sh, "start")), ParseTime(Get(sh, "end")))
                /\ kf.shot_tags # <<>>

(***************************************************************************)
(* Properties of a session of builds (specification SpecSession).          *)
(***************************************************************************)
\* The fields of a keyframe that two builds are compared on.
SameContent(a, b) ==
    /\ a.frame_index = b.frame_index
    /\ a.start_time = b.start_time
    /\ a.end_time = b.end_time
    /\ a.labels = b.labels
    /\ a.faces = b.faces
    /\ a.ocr_text = b.ocr_text
    /\ a.shot_tags = b.shot_tags

\* C12: a build that ends on the same document and the same store as the
\* build before it ends the same way, and when both return, the two lists
\* have the same length and agree element by element on frame_index,
\* start_time, end_time, labels, faces, ocr_text and shot_tags.
C12_RebuildIsIdempotent ==
    (run >= 2 /\ pc \in {"returned", "raised"}
       /\ metadata = earlier.metadata /\ store = earlier.store)
      => /\ pc = earlier.pc
         /\ Len(formatted_keyframes) = Len(earlier.formatted_keyframes)
         /\ \A n \in 1..Len(formatted_keyframes) :
               SameContent(formatted_keyframes[n], earlier.formatted_keyframes[n])

\* A second build of the same document on the same store has returned two
\* keyframes, the thumbnails of the first build being on disk when it began.
C12_Witness ==
    /\ run = 2
    /\ pc = "returned"
    /\ metadata = earlier.metadata
    /\ store = earlier.store
    /\ earlier.pc = "returned"
    /\ earlier.disk # EmptyDict
    /\ Len(formatted_keyframes) = 2
    /\ \E n \in 1..2 : formatted_keyframes[n].labels # <<>>

\* C13 (as claimed): an image stored at a path is never replaced: a step
\* that produces a keyframe leaves the image at every path already on disk
\* as it was.
C13_ImageCreatedOnce ==
    [][Len(formatted_keyframes') > Len(formatted_keyframes)
          => \A path \in DOMAIN disk : disk'[path] = disk[path]]_vars

\* C14 (as claimed): a keyframe of one build and a keyframe of the build
\* before it have the same keyframe_path only if the two documents have the
\* same base name and the two keyframes the same frame_index.
C14_PathUniquePerBaseNameAndIndex ==
    run >= 2 =>
        \A m \in 1..Len(earlier.formatted_keyframes),
           n \in 1..Len(formatted_keyframes) :
            LET a == earlier.formatted_keyframes[m]
                b == formatted_keyframes[n]
            IN  a.keyframe_path = b.keyframe_path
                  => /\ BaseName(Get(earlier.metadata, "name"))
                          = BaseName(Get(metadata, "name"))
                     /\ a.frame_index = b.frame_index

\* A boundary of an interval, read by whichever of the synonymous names
\* carries it (n = 1: the start, n = 2: the end).
Boundary(interval, n) ==
    IF \E k \in BoundaryKeys : k[n] \in DOMAIN interval
    THEN interval[(CHOOSE k \in BoundaryKeys : k[n] \in DOMAIN interval)[n]]
    ELSE None

\* The positions <<i, list, j>> of the intervals of a list of entities,
\* under either list name.
ListedIntervals(entities) ==
    UNION { UNION { { <<i, l, j>> : j \in 1..Len(GetOr(entities[i], l, <<>>)) } :
                    l \in ListKeys } : i \in 1..Len(entities) }

\* The intervals of a list of entities that contain t.
ActiveCount(entities, t) ==
    Cardinality({ p \in ListedIntervals(entities) :
                    LET interval == entities[p[1]][p[2]][p[3]]
                    IN  /\ FLeq(ParseTime(Boundary(interval, 1)), t)
                        /\ FLeq(t, ParseTime(Boundary(interval, 2))) })

\* C15 (as claimed): the boundaries of an interval count the same under each
\* of the synonymous field names: the collected timestamps are the
\* boundaries of the label, transcript and shot intervals whichever names
\* carry them, and a keyframe lists one entry per label, face and OCR
\* interval that contains its timestamp, whichever names carry it.
C15_SynonymousFieldNames ==
    cap # "none" =>
        LET vi == Insights(metadata)
            seeds ==
                { vi.labels[p[1]][p[2]][p[3]] : p \in ListedIntervals(vi.labels) }
                  \cup { vi.transcript[p[1]][p[2]][p[3]] :
                         p \in ListedIntervals(vi.transcript) }
                  \cup { vi.shots[i] : i \in 1..Len(vi.shots) }
        IN  /\ { timestamps[k] : k \in 1..Len(timestamps) }
                  = UNION { { ParseTime(Boundary(interval, 1)),
                              ParseTime(Boundary(interval, 2)) } : interval \in seeds }
            /\ \A n \in 1..Len(formatted_keyframes) :
                  LET kf == formatted_keyframes[n]
                      t  == timestamps[kf.frame_index + 1]
                  IN  /\ Len(kf.labels) = ActiveCount(vi.labels, t)
                      /\ Len(kf.faces) = ActiveCount(vi.faces, t)
                      /\ Len(kf.ocr_text) = ActiveCount(vi.ocr, t)

\* The characters of file names in code-point order.
CodePointOrder ==
    <<"-", ".", "0", "1", "2", "3", "4", "5", "6", "7", "8", "9", "_",
      "a", "b", "c", "d", "e", "f", "g", "h", "i", "j", "k", "l", "m",
      "n", "o", "p", "q", "r", "s", "t", "u", "v", "w", "x", "y", "z">>

CodePoint(c) == CHOOSE i \in 1..Len(CodePointOrder) : CodePointOrder[i] = c

\* a <= b in the lexical order of strings.
RECURSIVE LexLeq(_, _)
LexLeq(a, b) ==
    IF a = <<>> THEN TRUE
    ELSE IF b = <<>> THEN FALSE
    ELSE IF Head(a) = Head(b) THEN LexLeq(Tail(a), Tail(b))
    ELSE CodePoint(Head(a)) < CodePoint(Head(b))

\* The names of the store's files that start with the document's base name
\* and end with one of the video extensions.
MatchingNames ==
    { store.files[i].name : i \in
        { j \in 1..Len(store.files) :
            /\ SubSeq(store.files[j].name, 1,
                      Len(Split(Get(metadata, "name"), "_")[1]))
                  = Split(Get(metadata, "name"), "_")[1]
            /\ \E x \in VideoExtensions :
                  SubSeq(store.files[j].name,
                         Len(store.files[j].name) - 3, Len(store.files[j].name)) = x } }

\* C16 (as claimed): the file a build opens is the lexically first of the
\* matching files, whatever the order of the listing; and a build that
\* finds no matching file raises before a timestamp is collected.
C16_LexicallyFirstMatch ==
    /\ video_path # <<>> =>
          /\ video_path \in MatchingNames
          /\ \A f \in MatchingNames : LexLeq(video_path, f)
    /\ (pc # "start" /\ MatchingNames = {}) =>
          (pc = "raised" /\ err = "ValueError" /\ timestamps = <<>>)

(***************************************************************************)
(* Properties of the scene-change pass (specification SpecDetect).         *)
(***************************************************************************)
\* C8 (as claimed): a pass on a source that cannot be opened never returns
\* a keyframe list.
C8_UnopenableSourceAborts ==
    pc = "returned" => VideoAt(store, video_path).opens

\* The mean absolute difference of two gray images is above the limit.
MeanDifferenceAbove(a, b, limit) ==
    SumSeq([i \in 1..Len(a) |-> IF a[i] >= b[i] THEN a[i] - b[i] ELSE b[i] - a[i]])
        > limit * Len(a)

\* C11: among the frames scanned so far, frame i has a keyframe if and only
\* if i >= 1 and the mean absolute gray difference between frame i and frame
\* i - 1 is strictly above the threshold, whether or not frame i - 1 has a
\* keyframe itself; there is at most one keyframe per frame, in scan order.
C11_EmitIffChangeFromPrevious ==
    pc \in {"dloop", "returned"} =>
        LET frames == VideoAt(store, video_path).frames
        IN  /\ \A i \in 0..(frame_idx - 1) :
                  (\E k \in 1..Len(keyframes) : keyframes[k].frame_index = i)
                    <=> (i >= 1 /\ MeanDifferenceAbove(frames[i + 1], frames[i],
                                                        threshold))
            /\ \A k \in 1..Len(keyframes) : keyframes[k].frame_index < frame_idx
            /\ \A k \in 1..(Len(keyframes) - 1) :
                  keyframes[k].frame_index < keyframes[k + 1].frame_index

\* A returned scan of two identical frames followed by one that differs by
\* more than the threshold: exactly one keyframe, at index 2.
C11_Witness ==
    /\ pc = "returned"
    /\ frame_idx = 3
    /\ LET frames == VideoAt(store, video_path).frames
       IN  /\ frames[1] = frames[2]
           /\ MeanDifferenceAbove(frames[3], frames[2], threshold)
    /\ Len(keyframes) = 1
    /\ keyframes[1].frame_index = 2

\* C17: a call of enhance_keyframe that could not read the image leaves the
\* keyframe as it was; a call that read it adds the keys objects and faces,
\* both lists, and no other key, and leaves frame_index, keyframe_path and
\* diff_mean as they were.  No call raises or touches another keyframe.
C17_EnhanceKeepsOrAttaches ==
    [][enhanced' = enhanced + 1 =>
          LET old == keyframes[enhanced']
              new == keyframes'[enhanced']
          IN  /\ IF image' = NoImage
                 THEN new = old
                 ELSE /\ DOMAIN new = DOMAIN old \cup {"objects", "faces"}
                      /\ new.objects \in ObjectDetections
                      /\ new.faces \in FaceDetections
                      /\ new.frame_index = old.frame_index
                      /\ new.keyframe_path = old.keyframe_path
                      /\ new.diff_mean = old.diff_mean
              /\ Len(keyframes') = Len(keyframes)
              /\ \A n \in 1..Len(keyframes) :
                    n # enhanced' => keyframes'[n] = keyframes[n]
              /\ pc' = pc /\ err' = "none"]_vars

\* Two keyframes have been enhanced: the first image was read and the
\* keyframe holds the detections, the second could not be read and the
\* keyframe holds only the three keys of the scan.
C17_Witness ==
    /\ enhanced = 2
    /\ image = NoImage
    /\ DOMAIN keyframes[1]
          = {"frame_index", "keyframe_path", "diff_mean", "objects", "faces"}
    /\ keyframes[1].objects # <<>>
    /\ DOMAIN keyframes[2] = {"frame_index", "keyframe_path", "diff_mean"}

(***************************************************************************)
(* Properties of the annotation page (specification SpecAnnotate).         *)
(***************************************************************************)
\* The annotations file of the video the page is on.
CurrentFile == processed[BaseName(Library[metadata_file].name)]

\* C23 (as claimed): after pages of different videos were shown in one
\* session, the file that Save Annotations writes for the current video
\* holds only entries whose key is the frame index of one of its keyframes
\* and whose text was typed or loaded on that video's page; no annot_*
\* entry that another video left in the session state is written into it.
C23_OnlyCurrentVideoWritten ==
    event.saved = "written" =>
        \A idx \in DOMAIN CurrentFile :
            /\ \E i \in 1..Len(page_keyframes) :
                   DigitsOf(page_keyframes[i].frame_index) = idx
            /\ CurrentFile[idx] \in TextsFor(metadata_file)

\* A text that is empty or holds whitespace only.
Blank(text) == \A i \in 1..Len(text) : text[i] = " "

\* The page shows the video whose annotations were saved last.
OnSavedVideo ==
    /\ written.base_name # <<>>
    /\ event.outcome = "rendered"
    /\ BaseName(Library[metadata_file].name) = written.base_name

\* C24: after Save Annotations succeeded, a load of the same video gives
\* every keyframe whose annotation was not blank exactly the saved text,
\* found in the file under str(frame_index); a keyframe whose annotation
\* was empty or whitespace-only has no entry in the file.
C24_SaveReloadRoundTrip ==
    OnSavedVideo =>
        \A i \in 1..Len(page_keyframes) :
            LET idx == DigitsOf(page_keyframes[i].frame_index)
                was == written.annotations[idx]
            IN  IF Blank(was) THEN idx \notin DOMAIN CurrentFile
                ELSE /\ idx \in DOMAIN CurrentFile
                     /\ CurrentFile[idx] = was
                     /\ page_keyframes[i].annotation = was

\* The video was saved with a note on one keyframe and a whitespace-only
\* text on another, and its page has been loaded again: the first keyframe
\* holds the note, the second has no entry in the file.
C24_Witness ==
    /\ OnSavedVideo
    /\ event.trigger = "select"
    /\ \E i, j \in 1..Len(page_keyframes) :
         LET note == written.annotations[DigitsOf(page_keyframes[i].frame_index)]
             idx  == DigitsOf(page_keyframes[j].frame_index)
         IN  /\ ~Blank(note)
             /\ page_keyframes[i].annotation = note
             /\ written.annotations[idx] = <<" ">>
             /\ idx \notin DOMAIN CurrentFile

\* C25: has_unsaved_changes is false after the first run of a session,
\* is true after every edit of a text area, and goes from true to false
\* only in a run in which Save Annotations wrote the file; a save that
\* fails leaves the flag, and the files, as they were.
C25_UnsavedFlagTracksEdits ==
    [][/\ session_keys = {} => ~has_unsaved_changes'
       /\ event'.trigger = "edit" => has_unsaved_changes'
       /\ (has_unsaved_changes /\ ~has_unsaved_changes') =>
              /\ event'.trigger = "save"
              /\ event'.saved = "written"
              /\ BaseName(Library[metadata_file'].name) \in DOMAIN processed'
       /\ (event'.trigger = "save" /\ event'.saved = "failed") =>
              /\ has_unsaved_changes' = has_unsaved_changes
              /\ processed' = processed]_vars

\* An edit was followed by a save that failed: the flag is still set and
\* no annotations file exists.
C25_Witness ==
    /\ event.trigger = "save"
    /\ event.saved = "failed"
    /\ has_unsaved_changes
    /\ processed = EmptyDict
    /\ \E key \in DOMAIN session_state : session_state[key] # <<>>

(***************************************************************************)
(* Properties of TimeCode (specification SpecTime).                        *)
(***************************************************************************)
CountChar(str, ch) == Cardinality({i \in 1..Len(str) : str[i] = ch})

\* Malformed: None, the empty string, a number of ':' other than two, a
\* number of '.' other than one or a '.' before the last ':', a character
\* that is neither a digit nor a separator, or an empty part.
Malformed(str) ==
    \/ str = None
    \/ str = <<>>
    \/ CountChar(str, ":") # 2
    \/ CountChar(str, ".") # 1
    \/ \E i \in 1..Len(str) : ~IsDigit(str[i]) /\ str[i] \notin {":", "."}
    \/ \E i, j \in 1..Len(str) : i < j /\ str[i] = "." /\ str[j] = ":"
    \/ str[1] \in {":", "."}
    \/ str[Len(str)] \in {":", "."}
    \/ \E i \in 1..(Len(str) - 1) : str[i] \in {":", "."} /\ str[i + 1] \in {":", "."}

\* C4: parse_time returns 0, without raising, for every malformed input.
C4_MalformedParsesToZero ==
    (pc # "t_in" /\ Malformed(t_in)) => (t_val = FZero /\ err = "none")

\* Malformed strings of each kind have been parsed: a non-numeric part in a
\* string of three ':'-separated tokens.
C4_Witness ==
    /\ pc = "t_parsed"
    /\ t_in = <<"1", ":", "x", ":", "1", ".", "1">>
    /\ t_val = FZero

\* C21: parse_time returns 0 for every time string without a fractional
\* part; a value other than 0 comes only from a string with exactly two ':'
\* and exactly one '.', the '.' lying in the seconds token; an interval whose
\* end is written without milliseconds therefore ends at 0 and is inactive
\* at a timestamp above 0.
C21_NoFractionParsesToZero ==
    pc # "t_in" =>
        /\ CountChar(t_in, ".") = 0 =>
              /\ t_val = FZero
              /\ ~LabelActive(("startTime" :> T0) @@ ("endTime" :> t_in),
                              ParseTime(T1))
        /\ t_val # FZero =>
              /\ t_in # None
              /\ CountChar(t_in, ":") = 2
              /\ CountChar(t_in, ".") = 1
              /\ \A i, j \in 1..Len(t_in) :
                    (t_in[i] = "." /\ t_in[j] = ":") => j < i

\* A well-formed H:M:S string without milliseconds has been parsed to 0,
\* and a string with milliseconds to a value other than 0.
C21_Witness ==
    /\ pc = "t_parsed"
    /\ t_in = <<"1", ":", "1", ":", "1">>
    /\ t_val = FZero
    /\ parse_time(<<"1", ":", "1", ":", "1", ".", "1">>) # FZero

\* C5 (as claimed): formatting a parsed time and parsing the result gives
\* the time back.
C5_RoundTrip ==
    pc = "t_done" => t_back = t_val

=============================================================================
